---------------------------- MODULE Spec2Model ----------------------------
(***************************************************************************)
(* The execution context of pyRdfa (src/pyRdfa/state.py): the per-node     *)
(* state of the RDFa parser, its URI / CURIE / term resolution functions,  *)
(* the attribute dispatch (getURI, getResource) and the list accumulator   *)
(* (ListStructure) shared between contexts.                                *)
(*                                                                         *)
(* Python strings are sequences of one-character strings, so that          *)
(* indexing, slicing, searching and comparing work on them as in the code. *)
(* Intermediate values are passed as operator arguments rather than bound  *)
(* by LET, which keeps TLC's coverage of the nested string functions       *)
(* small.                                                                  *)
(***************************************************************************)
EXTENDS Integers, Sequences, FiniteSets, TLC

(***************************************************************************)
(* Bounds of the model                                                     *)
(***************************************************************************)

\* The contexts of one tree: a root and its descendants.
MaxContexts == 3

\* The ListStructure objects of one run: the root's and one per reset.
MaxLists == 2

\* The values appended to the lists of one run.
MaxAppends == 3

\* The attribute names of one getResource call.
MaxCandidates == 2

(***************************************************************************)
(* Python strings                                                          *)
(***************************************************************************)

\* The characters the model's strings use, in ASCII order.
Ascii ==
  << " ", "#", "-", ".", "/", "0", "1", "2", ":", "?",
     "D", "E", "F", "N", "R", "[", "]", "_",
     "a", "b", "c", "d", "e", "f", "h", "l", "n", "p", "r", "s", "t", "u", "v", "x" >>

Ord(c) == CHOOSE i \in 1..Len(Ascii) : Ascii[i] = c

UpperCase == {"D", "E", "F", "N", "R"}
LowerOf(c) ==
  CASE c = "D" -> "d" [] c = "E" -> "e" [] c = "F" -> "f"
    [] c = "N" -> "n" [] c = "R" -> "r" [] OTHER -> c

Letters == UpperCase \cup
  {"a", "b", "c", "d", "e", "f", "h", "l", "n", "p", "r", "s", "t", "u", "v", "x"}
Digits == {"0", "1", "2"}
Whitespace == {" "}

\* str.lower()
lower(s) == [i \in 1..Len(s) |-> LowerOf(s[i])]

\* s[a:b] with 0-based, end-exclusive Python indices 0 <= a.
Slice(s, a, b) ==
  IF b > Len(s) THEN (IF a >= Len(s) THEN <<>> ELSE SubSeq(s, a + 1, Len(s)))
  ELSE IF a >= b THEN <<>> ELSE SubSeq(s, a + 1, b)

\* s[a:]
From(s, a) == Slice(s, a, Len(s))

\* s[-1] of a string that is not empty
Last(s) == s[Len(s)]

\* The least member of a set of integers, or d when it is empty.
FirstOr(S, d) == IF S = {} THEN d ELSE CHOOSE i \in S : \A j \in S : i <= j

\* str.find(sub): the 0-based index of the first occurrence, or -1.
find(s, sub) ==
  FirstOr({i \in 0..(Len(s) - Len(sub)) : Slice(s, i, i + Len(sub)) = sub}, -1)

\* c in s
Contains(s, c) == \E i \in 1..Len(s) : s[i] = c

\* s.split(c, 1): the text before the first c (all of s when there is none)
\* and the text after it ('' when there is none).
BeforeChar(s, c) == IF find(s, <<c>>) = -1 THEN s ELSE Slice(s, 0, find(s, <<c>>))
AfterChar(s, c) == IF find(s, <<c>>) = -1 THEN <<>> ELSE From(s, find(s, <<c>>) + 1)

\* str.strip()
RECURSIVE lstrip(_)
lstrip(s) == IF s # <<>> /\ Head(s) \in Whitespace THEN lstrip(Tail(s)) ELSE s

RECURSIVE rstrip(_)
rstrip(s) ==
  IF s # <<>> /\ Last(s) \in Whitespace THEN rstrip(SubSeq(s, 1, Len(s) - 1)) ELSE s

strip(s) == rstrip(lstrip(s))

\* str.split(): the whitespace-separated tokens, none of them empty.
RECURSIVE splitWs(_)
splitWs(s) ==
  IF lstrip(s) = <<>> THEN <<>>
  ELSE <<BeforeChar(lstrip(s), " ")>> \o splitWs(AfterChar(lstrip(s), " "))

\* str.split(sep): the pieces between the occurrences of the character sep.
RECURSIVE splitOn(_, _)
splitOn(s, sep) ==
  IF find(s, <<sep>>) = -1 THEN <<s>>
  ELSE <<BeforeChar(s, sep)>> \o splitOn(AfterChar(s, sep), sep)

\* sep.join(parts)
RECURSIVE joinWith(_, _)
joinWith(parts, sep) ==
  IF parts = <<>> THEN <<>>
  ELSE IF Len(parts) = 1 THEN parts[1]
  ELSE parts[1] \o <<sep>> \o joinWith(Tail(parts), sep)

\* Python's a >= b on strings: lexicographic on the character codes.
RECURSIVE StrGE(_, _)
StrGE(a, b) ==
  IF b = <<>> THEN TRUE
  ELSE IF a = <<>> THEN FALSE
  ELSE IF Ord(Head(a)) # Ord(Head(b)) THEN Ord(Head(a)) > Ord(Head(b))
  ELSE StrGE(Tail(a), Tail(b))

(***************************************************************************)
(* Python 2.7 urlparse, as state.py uses it: urlsplit, urlparse,           *)
(* urlunparse and urljoin.  The model's strings hold no ';', so the params *)
(* component of urlparse is always empty and is left out.                  *)
(***************************************************************************)

http == <<"h", "t", "t", "p">>

\* urlparse.uses_relative and urlparse.uses_netloc, cut to the schemes the
\* model's strings can carry.
uses_relative == {http, <<>>}
uses_netloc == {http, <<>>}

\* urlparse.scheme_chars
scheme_chars == Letters \cup Digits \cup {"-", "."}

\* The index of the first of '/', '?', '#' at or after 0-based position 2
\* of url, or len(url): the end of the network location (_splitnetloc).
netlocEnd(url) ==
  FirstOr({i \in 2..(Len(url) - 1) : url[i + 1] \in {"/", "?", "#"}}, Len(url))

\* Whether url[:i] is a scheme: i is the index of the first ':' (or -1),
\* head the text before it and rest the text after it.
isScheme(i, head, rest) ==
  /\ i > 0
  /\ \/ head = http
     \/ /\ \A k \in 1..Len(head) : head[k] \in scheme_chars
        /\ \/ rest = <<>>
           \/ \E k \in 1..Len(rest) : rest[k] \notin Digits

\* The scheme urlsplit(url, default) finds and the rest of the url after it.
splitScheme(url, default) ==
  IF isScheme(find(url, <<":">>), BeforeChar(url, ":"), AfterChar(url, ":"))
  THEN [scheme |-> lower(BeforeChar(url, ":")), url |-> AfterChar(url, ":")]
  ELSE [scheme |-> default, url |-> url]

\* The query and the path of what is left of the url.
splitQuery(scheme, netloc, url, fragment) ==
  [scheme |-> scheme, netloc |-> netloc, path |-> BeforeChar(url, "?"),
   query |-> AfterChar(url, "?"), fragment |-> fragment]

\* The fragment of what follows the network location.
splitFragment(scheme, netloc, url) ==
  splitQuery(scheme, netloc, BeforeChar(url, "#"), AfterChar(url, "#"))

\* The network location of what follows the scheme.
splitNetloc(scheme, url) ==
  IF Slice(url, 0, 2) = <<"/", "/">>
  THEN splitFragment(scheme, Slice(url, 2, netlocEnd(url)), From(url, netlocEnd(url)))
  ELSE splitFragment(scheme, <<>>, url)

schemeSplit(s) == splitNetloc(s.scheme, s.url)

\* urlparse.urlsplit(url, scheme): scheme, netloc, path, query, fragment.
urlsplitWith(url, default) == schemeSplit(splitScheme(url, default))

urlsplit(url) == urlsplitWith(url, <<>>)

\* urlsplit(url)[0]
schemeOf(url) == splitScheme(url, <<>>).scheme

\* The network location urlsplit finds in url.
netlocOf(url) ==
  IF Slice(splitScheme(url, <<>>).url, 0, 2) = <<"/", "/">>
  THEN Slice(splitScheme(url, <<>>).url, 2, netlocEnd(splitScheme(url, <<>>).url))
  ELSE <<>>

\* urlsplit raises ValueError("Invalid IPv6 URL") on a network location with
\* one square bracket and not the other.
urlsplitRaises(url) == Contains(netlocOf(url), "[") # Contains(netlocOf(url), "]")

\* urlunsplit's "//" + netloc + url, when there is a network location or the
\* scheme uses one.
withNetloc(t) ==
  IF t.netloc # <<>>
     \/ (t.scheme # <<>> /\ t.scheme \in uses_netloc /\ Slice(t.path, 0, 2) # <<"/", "/">>)
  THEN <<"/", "/">> \o t.netloc
       \o (IF t.path # <<>> /\ Head(t.path) # "/" THEN <<"/">> \o t.path ELSE t.path)
  ELSE t.path

\* urlparse.urlunsplit / urlunparse with empty params.
urlunparse(t) ==
  (IF t.scheme # <<>> THEN t.scheme \o <<":">> ELSE <<>>)
  \o withNetloc(t)
  \o (IF t.query # <<>> THEN <<"?">> \o t.query ELSE <<>>)
  \o (IF t.fragment # <<>> THEN <<"#">> \o t.fragment ELSE <<>>)

\* list.remove('.') repeated while '.' is in the list.
RECURSIVE dropDots(_)
dropDots(segs) ==
  IF segs = <<>> THEN <<>>
  ELSE IF Head(segs) = <<".">> THEN dropDots(Tail(segs))
  ELSE <<Head(segs)>> \o dropDots(Tail(segs))

\* The first i with segs[i+1] = '..' not last and segs[i] neither '' nor
\* '..', or 0.
firstPair(segs) ==
  FirstOr({i \in 1..(Len(segs) - 2) :
             segs[i + 1] = <<".", ".">> /\ segs[i] \notin {<<>>, <<".", ".">>}}, 0)

\* urljoin's loop: delete the first "x/.." pair until there is none.
RECURSIVE collapse(_)
collapse(segs) ==
  IF firstPair(segs) = 0 THEN segs
  ELSE collapse(SubSeq(segs, 1, firstPair(segs) - 1)
                \o SubSeq(segs, firstPair(segs) + 2, Len(segs)))

\* A final '.' segment becomes ''.
lastDot(segs) ==
  IF Last(segs) = <<".">> THEN [segs EXCEPT ![Len(segs)] = <<>>] ELSE segs

\* The end of urljoin's segment handling: a final '..'.
lastDotDot(segs) ==
  IF segs = << <<>>, <<".", ".">> >> THEN << <<>>, <<>> >>
  ELSE IF Len(segs) >= 2 /\ Last(segs) = <<".", ".">>
    THEN SubSeq(segs, 1, Len(segs) - 2) \o << <<>> >>
  ELSE segs

\* bpath.split('/')[:-1]
allButLast(segs) == SubSeq(segs, 1, Len(segs) - 1)

\* The path urljoin makes of the base's path and a relative path.
joinPaths(bpath, path) ==
  joinWith(lastDotDot(collapse(dropDots(lastDot(
    allButLast(splitOn(bpath, "/")) \o splitOn(path, "/"))))), "/")

\* urljoin of the parsed base b and the parsed url u; base and url are not
\* empty.
joinParsed(b, u, url) ==
  IF u.scheme # b.scheme \/ u.scheme \notin uses_relative THEN url
  ELSE IF u.scheme \in uses_netloc /\ u.netloc # <<>> THEN urlunparse(u)
  ELSE IF Slice(u.path, 0, 1) = <<"/">>
    THEN urlunparse([u EXCEPT !.netloc = b.netloc])
  ELSE IF u.path = <<>>
    THEN urlunparse([u EXCEPT !.netloc = b.netloc, !.path = b.path,
                       !.query = IF u.query = <<>> THEN b.query ELSE u.query])
  ELSE urlunparse([u EXCEPT !.netloc = b.netloc, !.path = joinPaths(b.path, u.path)])

\* urlparse.urljoin(base, url)
urljoin(base, url) ==
  IF base = <<>> THEN url
  ELSE IF url = <<>> THEN base
  ELSE joinParsed(urlsplit(base), urlsplitWith(url, schemeOf(base)), url)

(***************************************************************************)
(* Values and diagnostics                                                  *)
(***************************************************************************)

\* Python's None, a string, an rdflib URIRef, an rdflib BNode, a list, and a
\* raised exception.
None == [kind |-> "None", val |-> <<>>]
Str(s) == [kind |-> "str", val |-> s]
URIRef(s) == [kind |-> "URIRef", val |-> s]
BNode(s) == [kind |-> "BNode", val |-> s]
List(l) == [kind |-> "list", val |-> l]
ValueError == [kind |-> "ValueError", val |-> <<>>]
AttributeError == [kind |-> "AttributeError", val |-> <<>>]

Exceptions == {ValueError, AttributeError}

\* bool(r) is False: None, or a URIRef of the empty string.
Falsy(r) == r = None \/ r = URIRef(<<>>)

\* One call of options.add_warning(message, warning class): the message
\* template and the class (the default class when none is given).
Warning(msg, type) == [msg |-> msg, type |-> type]

\* What a call did: the value it returned (or the exception it raised) and
\* the warnings it added, in order.
Outcome(ret, warnings) == [ret |-> ret, warnings |-> warnings]

\* pyRdfa.uri_schemes: the allow-list of usual URI schemes, cut to the
\* schemes the model's strings can carry.
uri_schemes == {http}

(***************************************************************************)
(* The prefix and term tables of a context (pyRdfa.termorcurie.TermOrCurie,*)
(* an external collaborator): the model holds a catalogue of tables, and a *)
(* context's term_or_curie is an index into it.                            *)
(***************************************************************************)

TermOrCurieTables ==
  << \* 1: nothing is bound
     [ns |-> [p \in {} |-> <<>>], terms |-> [t \in {} |-> <<>>]],
     \* 2: prefix p and term t are bound to absolute URIs
     [ns |-> (<<"p">> :> <<"h", "t", "t", "p", ":", "/", "/", "v", "/">>), terms |-> (<<"t">> :> <<"h", "t", "t", "p", ":", "/", "/", "v", "/", "t">>)],
     \* 3: prefix p is bound to a relative URI, term t to the empty URI
     [ns |-> (<<"p">> :> <<"r", "/">>), terms |-> (<<"t">> :> <<>>)] >>

\* termorcurie.ncname: the regular expression of a single name token.
ncname_match(val) ==
  /\ val # <<>>
  /\ Head(val) \in Letters
  /\ \A i \in 2..Len(val) : val[i] \in Letters \cup Digits \cup {".", "_", "-"}

\* The URI a prefix and a reference make: the prefix "_" makes a blank node,
\* a bound prefix the URI of the binding followed by the reference, anything
\* else None.
prefixToURI(ns, prefix, reference) ==
  IF prefix = <<"_">> THEN BNode(reference)
  ELSE IF prefix \in DOMAIN ns THEN URIRef(ns[prefix] \o reference)
  ELSE None

\* TermOrCurie.CURIE_to_URI(val): the value is split at its first colon.
CURIE_to_URI(tc, val) ==
  IF find(val, <<":">>) = -1 THEN None
  ELSE prefixToURI(TermOrCurieTables[tc].ns, BeforeChar(val, ":"), AfterChar(val, ":"))

\* TermOrCurie.term_to_URI(term): the URI a bare term is bound to, or None.
term_to_URI(tc, term) ==
  IF term \in DOMAIN TermOrCurieTables[tc].terms
  THEN URIRef(TermOrCurieTables[tc].terms[term]) ELSE None

(***************************************************************************)
(* The resolution functions of a context self: self.base, self.parsedBase, *)
(* self.rdfa_version and self.term_or_curie are what they read.            *)
(***************************************************************************)

\* The warning of create_URIRef and of line 411: the scheme is not a usual
\* one.
schemeWarnings(val) ==
  IF schemeOf(val) \notin uri_schemes
  THEN << Warning("err_URI_scheme", "Warning") >> ELSE << >>

\* _URI.create_URIRef(uri, check)
create_URIRef(uri, check) ==
  Outcome(URIRef(strip(uri)), IF check THEN schemeWarnings(strip(uri)) ELSE << >>)

\* The string join(base, v) makes of urljoin's result: v is not empty;
\* joined[-1] raises IndexError on an empty join, which the except clause
\* turns into the plain join.
restoreLast(joined, v) ==
  IF joined # <<>> /\ Last(v) # Last(joined) THEN joined \o <<Last(v)>> ELSE joined

\* _URI.join(base, v, check)
join(base, v, check) == create_URIRef(restoreLast(urljoin(base, v), v), check)

\* ExecutionContext._URI(val)
_URI(self, val) ==
  IF val = <<>> THEN Outcome(URIRef(self.base), << >>)
  ELSE IF urlsplitRaises(val) THEN Outcome(ValueError, << >>)
  ELSE IF self.parsedBase.scheme = <<>>
    THEN IF schemeOf(val) = <<>>
         THEN join(self.base, val, FALSE)
         ELSE create_URIRef(val, TRUE)
  ELSE join(self.base, val, TRUE)

\* self.rdfa_version >= "1.1"
atLeast11(self) == StrGE(self.rdfa_version, <<"1", ".", "1">>)

\* A version 1.1 branch that takes an unresolved value as a URI whether or
\* not it came in brackets.
curie11FallsBack(self, val, safe_curie, retval) ==
  IF retval = None THEN _URI(self, val) ELSE Outcome(retval, << >>)

\* Lines 352-367: version 1.1, retval is what CURIE_to_URI returned.
curie11(self, val, safe_curie, retval) ==
  IF retval = None
  THEN IF safe_curie
       THEN Outcome(None,
              << Warning("err_no_CURIE_in_safe_CURIE", "UnresolvablePrefix") >>)
       ELSE _URI(self, val)
  ELSE IF retval.kind # "BNode" /\ schemeOf(retval.val) = <<>>
       THEN Outcome(URIRef(self.base \o retval.val), << >>)
       ELSE Outcome(retval, << >>)

\* A branch that takes every version for 1.1.
curieByVersionAlways11(self, val, safe_curie) ==
  curie11(self, val, safe_curie, CURIE_to_URI(self.term_or_curie, val))

\* Lines 350-373: val has lost its brackets when safe_curie.
curieByVersion(self, val, safe_curie) ==
  IF atLeast11(self)
  THEN curie11(self, val, safe_curie, CURIE_to_URI(self.term_or_curie, val))
  ELSE IF safe_curie
    THEN Outcome(CURIE_to_URI(self.term_or_curie, val), << >>)
    ELSE _URI(self, val)

\* ExecutionContext._CURIEorURI(val)
_CURIEorURI(self, val) ==
  IF val = <<>> THEN Outcome(URIRef(self.base), << >>)
  ELSE IF Head(val) = "["
    THEN IF Last(val) # "]"
         THEN Outcome(None,
                << Warning("err_illegal_safe_CURIE", "UnresolvablePrefix") >>)
         ELSE curieByVersion(self, Slice(val, 1, Len(val) - 1), TRUE)
  ELSE curieByVersion(self, val, FALSE)

\* Lines 391-396: val is a name token, retval what term_to_URI returned.
termResult(retval) ==
  IF Falsy(retval)
  THEN Outcome(None, << Warning("err_undefined_terms", "UnresolvableTerm") >>)
  ELSE Outcome(retval, << >>)

\* Lines 402-416: CURIE_to_URI returned nothing for val.
absURI(self, val) ==
  IF atLeast11(self)
  THEN IF urlsplitRaises(val) THEN Outcome(ValueError, << >>)
       ELSE IF schemeOf(val) = <<>>
       THEN Outcome(None,
              << Warning("err_non_legal_CURIE_ref", "UnresolvablePrefix") >>)
       ELSE Outcome(URIRef(val), schemeWarnings(val))
  ELSE Outcome(None, << Warning("err_undefined_CURIE", "UnresolvablePrefix") >>)

\* Lines 399-416: val is not a name token, retval what CURIE_to_URI returned.
curieResult(self, val, retval) ==
  IF ~Falsy(retval) THEN Outcome(retval, << >>) ELSE absURI(self, val)

\* ExecutionContext._TERMorCURIEorAbsURI(val)
_TERMorCURIEorAbsURI(self, val) ==
  IF val = <<>> THEN Outcome(None, << >>)
  ELSE IF ncname_match(val)
    THEN termResult(term_to_URI(self.term_or_curie, val))
  ELSE curieResult(self, val, CURIE_to_URI(self.term_or_curie, val))

(***************************************************************************)
(* Host languages (src/pyRdfa/host/__init__.py)                            *)
(***************************************************************************)

\* The attributes of class HostLanguage, as host/__init__.py defines them.
HostLanguageDefined ==
  [rdfa_core |-> "RDFa Core", xhtml |-> "XHTML+RDFa", xhtml5 |-> "XHTML5+RDFa",
   html5 |-> "HTML5+RDFa", atom |-> "Atom+RDFa", svg |-> "SVG+RDFa"]

\* The same class with the attribute html as well, which state.py reads
\* (HostLanguage.html) and host/__init__.py does not define: the enumeration
\* state.py was written against.  With HostLanguageDefined every construction
\* of a context ends in AttributeError; the statements about constructed
\* contexts have their cases only with this one.
HostLanguageWithHtml ==
  [rdfa_core |-> "RDFa Core", xhtml |-> "XHTML+RDFa", xhtml5 |-> "XHTML5+RDFa",
   html5 |-> "HTML5+RDFa", atom |-> "Atom+RDFa", svg |-> "SVG+RDFa",
   html |-> "HTML+RDFa"]

\* host.accept_xml_base and host.accept_xml_lang
accept_xml_base ==
  {HostLanguageDefined.rdfa_core, HostLanguageDefined.atom, HostLanguageDefined.svg}
accept_xml_lang ==
  {HostLanguageDefined.rdfa_core, HostLanguageDefined.atom, HostLanguageDefined.svg}

\* The keys of host.beautifying_prefixes: the host languages for which the
\* root context binds the prefix xhv in the graph.
beautifying_prefixes ==
  {HostLanguageDefined.xhtml, HostLanguageDefined.html5, HostLanguageDefined.xhtml5}

(***************************************************************************)
(* DOM nodes: the attributes of the element and, for getElementsByTagName, *)
(* the href attributes of the base elements below it (None for a base      *)
(* element without href).  A context's node is an index into Nodes.        *)
(***************************************************************************)

NoAttrs == [a \in {} |-> <<>>]

Nodes ==
  << \* 1: no attribute at all
     [attrs |-> NoAttrs, bases |-> << >>],
     \* 2: lang="EN", and <base/> then <base href="http://e/b#f"/>
     [attrs |-> ("lang" :> <<"E", "N">>),
      bases |-> << None, Str(<<"h", "t", "t", "p", ":", "/", "/", "e", "/", "b", "#", "f">>) >>],
     \* 3: xml:lang="fr" version="RDFa 1.0" xml:base="http://e/c#f" xmlns="n"
     [attrs |-> ("xml:lang" :> <<"f", "r">>) @@ ("version" :> <<"R", "D", "F", "a", " ", "1", ".", "0">>)
                @@ ("xml:base" :> <<"h", "t", "t", "p", ":", "/", "/", "e", "/", "c", "#", "f">>) @@ ("xmlns" :> <<"n">>),
      bases |-> << >>],
     \* 4: lang="" xml:base="r" and <base href="#f"/>
     [attrs |-> ("lang" :> <<>>) @@ ("xml:base" :> <<"r">>),
      bases |-> << Str(<<"#", "f">>) >>],
     \* 5: xml:lang="" version="RDFa 1.1" xml:base="#f"
     [attrs |-> ("xml:lang" :> <<>>) @@ ("version" :> <<"R", "D", "F", "a", " ", "1", ".", "1">>)
                @@ ("xml:base" :> <<"#", "f">>),
      bases |-> << >>],
     \* 6: lang="en" xml:lang="EN"
     [attrs |-> ("lang" :> <<"e", "n">>) @@ ("xml:lang" :> <<"E", "N">>),
      bases |-> << >>],
     \* 7: lang="en" xml:lang="fr" version="2"
     [attrs |-> ("lang" :> <<"e", "n">>) @@ ("xml:lang" :> <<"f", "r">>) @@ ("version" :> <<"2">>),
      bases |-> << >>],
     \* 8: about="[u:x]" href="x?" rel="t u:x" data="d"
     [attrs |-> ("about" :> <<"[", "u", ":", "x", "]">>) @@ ("href" :> <<"x", "?">>)
                @@ ("rel" :> <<"t", " ", "u", ":", "x">>) @@ ("data" :> <<"d">>),
      bases |-> << >>],
     \* 9: about="p:x" resource="[p:x]" typeof="u" property=" p:y  t p:y "
     \*    datatype="t" data="u:x"
     [attrs |-> ("about" :> <<"p", ":", "x">>) @@ ("resource" :> <<"[", "p", ":", "x", "]">>)
                @@ ("typeof" :> <<"u">>) @@ ("property" :> <<" ", "p", ":", "y", " ", " ", "t", " ", "p", ":", "y", " ">>)
                @@ ("datatype" :> <<"t">>) @@ ("data" :> <<"u", ":", "x">>),
      bases |-> << >>],
     \* 10: href=" http://e/s " src="" rev=".." vocab="//[" resource="[u:x"
     [attrs |-> ("href" :> <<" ", "h", "t", "t", "p", ":", "/", "/", "e", "/", "s", " ">>) @@ ("src" :> <<>>)
                @@ ("rev" :> <<".", ".">>) @@ ("vocab" :> <<"/", "/", "[">>)
                @@ ("resource" :> <<"[", "u", ":", "x">>),
      bases |-> << >>],
     \* 11: rel="u:x //[ t" typeof="t t"
     [attrs |-> ("rel" :> <<"u", ":", "x", " ", "/", "/", "[", " ", "t">>) @@ ("typeof" :> <<"t", " ", "t">>),
      bases |-> << >>] >>

hasAttribute(node, name) == name \in DOMAIN Nodes[node].attrs
getAttribute(node, name) == Nodes[node].attrs[name]

(***************************************************************************)
(* ExecutionContext.__init__                                               *)
(***************************************************************************)

\* pyRdfa.rdfa_current_version
rdfa_current_version == <<"1", ".", "1">>

\* __init__.remove_frag_id(uri): urlparse, then urlunparse with an empty
\* fragment; the uri itself when urlparse raises.
remove_frag_id(uri) ==
  IF urlsplitRaises(uri) THEN uri
  ELSE urlunparse([urlsplit(uri) EXCEPT !.fragment = <<>>])

\* The href of the last base element that has one, as the loop of lines
\* 181-184 leaves it in self.base: "" when there is none.
RECURSIVE baseElementHref(_)
baseElementHref(bases) ==
  IF bases = <<>> THEN <<>>
  ELSE IF Last(bases) # None THEN remove_frag_id(Last(bases).val)
  ELSE baseElementHref(SubSeq(bases, 1, Len(bases) - 1))

\* self.rdfa_version of a root context (lines 158-169)
rootVersion(node, rdfa_version) ==
  IF rdfa_version # None THEN rdfa_version.val
  ELSE IF ~hasAttribute(node, "version") THEN rdfa_current_version
  ELSE IF find(getAttribute(node, "version"), <<"R", "D", "F", "a", " ", "1", ".", "0">>) # -1 THEN <<"1", ".", "0">>
  ELSE IF find(getAttribute(node, "version"), <<"R", "D", "F", "a", " ", "1", ".", "1">>) # -1 THEN <<"1", ".", "1">>
  ELSE rdfa_current_version

\* The base a root node sets itself (lines 178-186), "" when it sets none;
\* xhtmlOrHtml is the list [HostLanguage.xhtml, HostLanguage.html].
localBase(node, host_language, xhtmlOrHtml) ==
  IF host_language \in xhtmlOrHtml THEN baseElementHref(Nodes[node].bases)
  ELSE IF host_language \in accept_xml_base /\ hasAttribute(node, "xml:base")
    THEN remove_frag_id(getAttribute(node, "xml:base"))
  ELSE <<>>

\* A root that takes its base from the node alone.
orArgumentUnused(local, base) == local

\* Lines 188-190: if no local setting for base occurs, the argument has it.
orArgument(local, base) == IF local = <<>> THEN base ELSE local

\* self.base of a root context
rootBase(node, base, host_language, xhtmlOrHtml) ==
  orArgument(localBase(node, host_language, xhtmlOrHtml), base)

\* self.base of a context with a parent (lines 144, 151-152)
childBase(node, inherited_state) ==
  IF inherited_state.options.host_language \in accept_xml_base
     /\ hasAttribute(node, "xml:base")
  THEN remove_frag_id(getAttribute(node, "xml:base"))
  ELSE inherited_state.base

\* node.getAttribute(name).lower(), or None without the attribute
attributeLower(node, name) ==
  IF hasAttribute(node, name) THEN Str(lower(getAttribute(node, name))) ELSE None

\* Lines 230-240 and 249: a language attribute's value sets the language,
\* an empty value sets None.
langOrNone(l) == IF Len(l.val) # 0 THEN l ELSE None

\* A language rule for which an empty attribute is no attribute.
settleLangSkipsEmpty(node, inherited, host_language, xhtmlOrHtml) ==
  IF host_language \in xhtmlOrHtml
  THEN IF attributeLower(node, "xml:lang") \notin {None, Str(<<>>)}
       THEN attributeLower(node, "xml:lang")
       ELSE IF attributeLower(node, "lang") \notin {None, Str(<<>>)}
       THEN attributeLower(node, "lang")
       ELSE inherited
  ELSE IF host_language \in accept_xml_lang
          /\ attributeLower(node, "xml:lang") \notin {None, Str(<<>>)}
       THEN attributeLower(node, "xml:lang")
       ELSE inherited

\* self.lang (lines 212-249): inherited is the parent's language, or None.
settleLang(node, inherited, host_language, xhtmlOrHtml) ==
  IF host_language \in xhtmlOrHtml
  THEN IF attributeLower(node, "xml:lang") # None
       THEN langOrNone(attributeLower(node, "xml:lang"))
       ELSE IF attributeLower(node, "lang") # None
       THEN langOrNone(attributeLower(node, "lang"))
       ELSE inherited
  ELSE IF host_language \in accept_xml_lang /\ hasAttribute(node, "xml:lang")
       THEN langOrNone(attributeLower(node, "xml:lang"))
       ELSE inherited

\* The warning of lines 243-244: both language attributes, and they differ.
langWarnings(node, host_language, xhtmlOrHtml) ==
  IF /\ host_language \in xhtmlOrHtml
     /\ hasAttribute(node, "lang") /\ hasAttribute(node, "xml:lang")
     /\ attributeLower(node, "lang") # attributeLower(node, "xml:lang")
  THEN << Warning("err_lang", "Warning") >> ELSE << >>

\* self.defaultNS (lines 253-258)
settleDefaultNS(node, inherited) ==
  IF hasAttribute(node, "xmlns") THEN Str(getAttribute(node, "xmlns")) ELSE inherited

(***************************************************************************)
(* State                                                                   *)
(***************************************************************************)

VARIABLES
  HostLanguage,  \* the attributes of class HostLanguage that state.py finds
  contexts,      \* the ExecutionContext objects built so far, in order
  heap,          \* the ListStructure objects; list_mapping is an index here
  graph,         \* the prefixes bound in the RDFLib graph
  result,        \* the last call: its name, its object, its argument, its outcome
  raised,        \* the exception that ended the run, or None
  scopes         \* history: each context's list scope, each scope's appends

vars == <<HostLanguage, contexts, heap, graph, result, raised, scopes>>

\* The names in the list [HostLanguage.xhtml, HostLanguage.html] of lines
\* 180 and 217, and the list itself.
xhtmlOrHtmlNames == {"xhtml", "html"}
xhtmlOrHtml == {HostLanguage[n] : n \in xhtmlOrHtmlNames \cap DOMAIN HostLanguage}

\* Building that list raises AttributeError when class HostLanguage lacks
\* one of the two attributes.
xhtmlOrHtmlRaises == ~(xhtmlOrHtmlNames \subseteq DOMAIN HostLanguage)

\* ListStructure()
ListStructure == [mapping |-> [p \in {} |-> <<>>], origin |-> None]

Call(op, self, arg, out) == [op |-> op, self |-> self, arg |-> arg, out |-> out]

NoCall == Call("", 0, None, Outcome(None, << >>))

\* Options(): the host language defaults to RDFa Core.
DefaultOptions == [host_language |-> HostLanguageDefined.rdfa_core]

\* self.options of a root context (lines 172-176)
rootOptions(options) == IF options = None THEN DefaultOptions ELSE options.val

\* The fields of a context.
Context(node, inherited_state, rdfa_version, base, options, list_mapping, new_list, term_or_curie, lang, defaultNS) ==
  [node |-> node,
   inherited_state |-> inherited_state,
   rdfa_version |-> rdfa_version,
   base |-> base,
   parsedBase |-> urlsplit(base),
   options |-> options,
   list_mapping |-> list_mapping,
   new_list |-> new_list,
   term_or_curie |-> term_or_curie,
   lang |-> lang,
   defaultNS |-> defaultNS]

\* The fields __init__ gives a root context (inherited_state is None); the
\* new ListStructure is heap entry list_mapping.
rootContext(node, base, options, rdfa_version, tc, list_mapping) ==
  Context(node, 0, rootVersion(node, rdfa_version),
          rootBase(node, base, rootOptions(options).host_language, xhtmlOrHtml),
          rootOptions(options), list_mapping, TRUE, tc,
          settleLang(node, None, rootOptions(options).host_language, xhtmlOrHtml),
          settleDefaultNS(node, None))

\* A child branch that settles the version as the root branch does.
childContextOwnVersion(node, parent, base, options, rdfa_version) ==
  Context(node, parent, rootVersion(node, rdfa_version),
          childBase(node, contexts[parent]),
          contexts[parent].options, contexts[parent].list_mapping, FALSE,
          contexts[parent].term_or_curie,
          settleLang(node, contexts[parent].lang,
                     contexts[parent].options.host_language, xhtmlOrHtml),
          settleDefaultNS(node, contexts[parent].defaultNS))

\* The fields __init__ gives a context built from contexts[parent]; the base,
\* options and rdfa_version arguments are not read on this branch.
childContext(node, parent, base, options, rdfa_version) ==
  Context(node, parent, contexts[parent].rdfa_version,
          childBase(node, contexts[parent]),
          contexts[parent].options, contexts[parent].list_mapping, FALSE,
          contexts[parent].term_or_curie,
          settleLang(node, contexts[parent].lang,
                     contexts[parent].options.host_language, xhtmlOrHtml),
          settleDefaultNS(node, contexts[parent].defaultNS))

\* What __init__ raises for the context it would build: AttributeError for
\* the list of lines 180 / 217, ValueError from urlsplit(self.base), line 201.
initRaises(base) ==
  IF xhtmlOrHtmlRaises THEN AttributeError
  ELSE IF urlsplitRaises(base) THEN ValueError
  ELSE None

\* The history of list scopes: a scope opens with a root context and with
\* every reset; a context built from another is in its parent's scope; log
\* holds, per scope and property, the values appended through the contexts
\* of the scope, in the order of the calls.
NoAppends == [p \in {} |-> <<>>]
scopeOpened(of) == [of |-> of, log |-> Append(scopes.log, NoAppends)]
scopeInherited(parent) == [of |-> Append(scopes.of, scopes.of[parent]), log |-> scopes.log]

\* The base and rdfa_version arguments of a call of the constructor.
Arguments(base, rdfa_version) == List(<< Str(base), rdfa_version >>)

\* The end of __init__: the exception ends the run, or self is a context.
Constructed(self, args, exc, newHeap, newGraph, newScopes) ==
  IF exc # None
  THEN /\ raised' = exc
       /\ result' = Call("__init__", 0, args, Outcome(exc, << >>))
       /\ UNCHANGED <<contexts, heap, graph, scopes>>
  ELSE /\ contexts' = Append(contexts, self)
       /\ heap' = newHeap
       /\ graph' = newGraph
       /\ scopes' = newScopes
       /\ result' = Call("__init__", Len(contexts) + 1, args,
                         Outcome(None, langWarnings(self.node, self.options.host_language,
                                                    xhtmlOrHtml)))
       /\ UNCHANGED raised

\* Lines 193-196: the prefixes of beautifying_prefixes are bound in the graph.
beautified(options) ==
  IF options.host_language \in beautifying_prefixes THEN graph \cup {"xhv"} ELSE graph

\* ExecutionContext(node, graph, None, base, options, rdfa_version)
BuildRoot(node, base, options, rdfa_version, tc) ==
  /\ raised = None
  /\ contexts = << >>
  /\ Constructed(rootContext(node, base, options, rdfa_version, tc, Len(heap) + 1),
                 Arguments(base, rdfa_version),
                 initRaises(rootBase(node, base, rootOptions(options).host_language,
                                     xhtmlOrHtml)),
                 Append(heap, ListStructure), beautified(rootOptions(options)),
                 scopeOpened(Append(scopes.of, Len(scopes.log) + 1)))
  /\ UNCHANGED HostLanguage

\* ExecutionContext(node, graph, contexts[parent], base, options, rdfa_version)
BuildChild(parent, node, base, options, rdfa_version) ==
  /\ raised = None
  /\ parent \in 1..Len(contexts)
  /\ Len(contexts) < MaxContexts
  /\ Constructed(childContext(node, parent, base, options, rdfa_version),
                 Arguments(base, rdfa_version),
                 initRaises(childBase(node, contexts[parent])), heap, graph,
                 scopeInherited(parent))
  /\ UNCHANGED HostLanguage

(***************************************************************************)
(* The inputs of the constructor                                           *)
(***************************************************************************)

BaseArguments == { <<>>, <<"h", "t", "t", "p", ":", "/", "/", "e", "/", "a", "#", "f">>, <<"d", "/", "a">> }

VersionArguments == {None, Str(<<"1", ".", "0">>), Str(<<"1", ".", "1">>)}

\* options: None, or an Options object with one of the host languages of
\* class HostLanguage.
OptionsArguments ==
  {None} \cup {Str([host_language |-> HostLanguage[n]]) : n \in DOMAIN HostLanguage}

\* The nodes of root contexts, and those of the contexts built below them.
ConstructorNodes == 1..7
ChildNodes == {1, 3, 4, 5}

\* The rdfa_version argument of the calls that pass a parent.
ChildVersionArguments == {None, Str(<<"1", ".", "0">>)}

Init ==
  /\ HostLanguage \in {HostLanguageDefined, HostLanguageWithHtml}
  /\ contexts = << >>
  /\ heap = << >>
  /\ graph = {}
  /\ result = NoCall
  /\ raised = None
  /\ scopes = [of |-> << >>, log |-> << >>]

Next ==
  \/ \E node \in ConstructorNodes, base \in BaseArguments,
        options \in OptionsArguments, rdfa_version \in VersionArguments :
       BuildRoot(node, base, options, rdfa_version, 1)
  \/ \E parent \in 1..Len(contexts), node \in ChildNodes,
        rdfa_version \in ChildVersionArguments :
       BuildChild(parent, node, <<>>, None, rdfa_version)

Spec == Init /\ [][Next]_vars

(***************************************************************************)
(* The list accumulator (lines 472-505)                                    *)
(***************************************************************************)

\* A DOM node as a list origin.
Node(n) == [kind |-> "node", val |-> <<n>>]

\* A reset that leaves the origin of the new ListStructure alone.
resetStructureNoOrigin(origin) == ListStructure

\* The ListStructure reset_list_mapping leaves in self.list_mapping: a new
\* one, with the origin set if the origin is true (a node, not None).
resetStructure(origin) ==
  [ListStructure EXCEPT !.origin = IF origin # None THEN origin ELSE None]

\* A reset that empties the ListStructure the context holds, in place.
reset_in_place(self, origin) ==
  /\ raised = None
  /\ self \in 1..Len(contexts)
  /\ Len(scopes.log) < MaxLists
  /\ heap' = [heap EXCEPT ![contexts[self].list_mapping] = resetStructure(origin)]
  /\ contexts' = [contexts EXCEPT ![self].new_list = TRUE]
  /\ result' = Call("reset_list_mapping", self, origin, Outcome(None, << >>))
  /\ scopes' = scopeOpened([scopes.of EXCEPT ![self] = Len(scopes.log) + 1])
  /\ UNCHANGED <<HostLanguage, graph, raised>>

\* ExecutionContext.reset_list_mapping(origin)
reset_list_mapping(self, origin) ==
  /\ raised = None
  /\ self \in 1..Len(contexts)
  /\ Len(heap) < MaxLists
  /\ heap' = Append(heap, resetStructure(origin))
  /\ contexts' = [contexts EXCEPT ![self].list_mapping = Len(heap) + 1,
                                  ![self].new_list = TRUE]
  /\ result' = Call("reset_list_mapping", self, origin, Outcome(None, << >>))
  /\ scopes' = scopeOpened([scopes.of EXCEPT ![self] = Len(scopes.log) + 1])
  /\ UNCHANGED <<HostLanguage, graph, raised>>

\* ExecutionContext.list_empty()
list_empty(self) == DOMAIN heap[contexts[self].list_mapping].mapping = {}

\* ExecutionContext.get_list_props()
get_list_props(self) == DOMAIN heap[contexts[self].list_mapping].mapping

\* ExecutionContext.get_list_value(prop); prop is a key of the mapping.
get_list_value(self, prop) == heap[contexts[self].list_mapping].mapping[prop]

\* ExecutionContext.get_list_origin()
get_list_origin(self) == heap[contexts[self].list_mapping].origin

\* ExecutionContext.set_list_origin(origin)
set_list_origin(self, origin) ==
  /\ raised = None
  /\ self \in 1..Len(contexts)
  /\ heap' = [heap EXCEPT ![contexts[self].list_mapping].origin = origin]
  /\ result' = Call("set_list_origin", self, origin, Outcome(None, << >>))
  /\ UNCHANGED <<HostLanguage, contexts, graph, raised, scopes>>

\* The history of a scope after one more append: resource is the last of
\* the values of property.
logged(log, property, resource) ==
  [p \in DOMAIN log \cup {property} |->
     IF p # property THEN log[p]
     ELSE IF p \in DOMAIN log THEN log[p] \o << resource >> ELSE << resource >>]

\* An append that puts the resource in front of the values of the property.
addedInFront(mapping, property, resource) ==
  IF property \in DOMAIN mapping
  THEN [mapping EXCEPT ![property] = << resource >> \o @]
  ELSE mapping @@ (property :> << resource >>)

\* The mapping with resource added under property (lines 502-505).
added(mapping, property, resource) ==
  IF property \in DOMAIN mapping
  THEN [mapping EXCEPT ![property] = Append(@, resource)]
  ELSE mapping @@ (property :> << resource >>)

\* The values the ListStructure objects hold, all properties together.
RECURSIVE stored(_, _)
stored(mapping, props) ==
  IF props = {} THEN 0
  ELSE Len(mapping[CHOOSE p \in props : TRUE])
       + stored(mapping, props \ {CHOOSE p \in props : TRUE})

RECURSIVE storedInHeap(_)
storedInHeap(h) ==
  IF h = << >> THEN 0
  ELSE stored(Head(h).mapping, DOMAIN Head(h).mapping) + storedInHeap(Tail(h))

\* ExecutionContext.add_to_list_mapping(property, resource)
add_to_list_mapping(self, property, resource) ==
  /\ raised = None
  /\ self \in 1..Len(contexts)
  /\ storedInHeap(heap) < MaxAppends
  /\ heap' = [heap EXCEPT ![contexts[self].list_mapping].mapping =
                             added(@, property, resource)]
  /\ result' = Call("add_to_list_mapping", self, << property, resource >>,
                    Outcome(None, << >>))
  /\ scopes' = [scopes EXCEPT !.log[scopes.of[self]] = logged(@, property, resource)]
  /\ UNCHANGED <<HostLanguage, contexts, graph, raised>>

\* The inputs of the list operations: property URIs, resources, origins.
ListProperties == {"P", "Q"}
ListResources == {"v", "w"}
ListOrigins == {None, Node(1)}

\* The list accumulator in a tree of plain contexts.
NextList ==
  \/ BuildRoot(1, <<"h", "t", "t", "p", ":", "/", "/", "e", "/", "a", "#", "f">>, None, None, 1)
  \/ \E parent \in 1..Len(contexts) : BuildChild(parent, 1, <<>>, None, None)
  \/ \E self \in 1..Len(contexts), origin \in ListOrigins :
       reset_list_mapping(self, origin)
  \/ \E self \in 1..Len(contexts), origin \in ListOrigins :
       set_list_origin(self, origin)
  \/ \E self \in 1..Len(contexts), property \in ListProperties,
        resource \in ListResources :
       add_to_list_mapping(self, property, resource)

SpecList == Init /\ [][NextList]_vars

(***************************************************************************)
(* getURI and getResource (lines 421-469)                                  *)
(***************************************************************************)

\* ExecutionContext._list: the attributes that hold lists of values.
_list == {"rel", "rev", "property", "typeof"}

\* ExecutionContext._resource_type: attribute name to resolution function.
_resource_type ==
  [attr \in {"href", "src", "vocab", "about", "resource",
             "rel", "rev", "datatype", "typeof", "property"} |->
     IF attr \in {"href", "src", "vocab"} THEN "_URI"
     ELSE IF attr \in {"about", "resource"} THEN "_CURIEorURI"
     ELSE "_TERMorCURIEorAbsURI"]

\* A lookup that takes an attribute outside the table for a term or CURIE.
funcOfTermOrCurie(attr) ==
  IF attr \in DOMAIN _resource_type THEN _resource_type[attr]
  ELSE "_TERMorCURIEorAbsURI"

\* Lines 439-443: the function of the attribute; the lookup of a name that
\* is not a key raises, and the except clause takes _URI.
funcOf(attr) ==
  IF attr \in DOMAIN _resource_type THEN _resource_type[attr] ELSE "_URI"

\* func(self, val)
apply(func, self, val) ==
  IF func = "_URI" THEN _URI(self, val)
  ELSE IF func = "_CURIEorURI" THEN _CURIEorURI(self, val)
  ELSE _TERMorCURIEorAbsURI(self, val)

\* Lines 447-448: the list comprehension over the tokens of the value, then
\* the filter that drops None; an exception of func ends the call.
RECURSIVE resolveTokens(_, _, _, _, _)
resolved(func, self, tokens, resources, warnings, out) ==
  IF out.ret \in Exceptions THEN Outcome(out.ret, warnings \o out.warnings)
  ELSE resolveTokens(func, self, Tail(tokens),
                     IF out.ret # None THEN Append(resources, out.ret) ELSE resources,
                     warnings \o out.warnings)

resolveTokens(func, self, tokens, resources, warnings) ==
  IF tokens = << >> THEN Outcome(List(resources), warnings)
  ELSE resolved(func, self, tokens, resources, warnings,
                apply(func, self, strip(Head(tokens))))

\* ExecutionContext.getURI(attr)
getURI(self, attr) ==
  IF ~hasAttribute(self.node, attr)
  THEN IF attr \in _list THEN Outcome(List(<< >>), << >>) ELSE Outcome(None, << >>)
  ELSE IF attr \in _list
    THEN resolveTokens(funcOf(attr), self, splitWs(strip(getAttribute(self.node, attr))),
                       << >>, << >>)
  ELSE apply(funcOf(attr), self, strip(getAttribute(self.node, attr)))

\* An attribute name among the arguments of getResource.
Name(attr) == [kind |-> "name", val |-> <<attr>>]

\* Lines 461-464: the candidates are the arguments, or the first argument
\* when it is a tuple or a list.
rargs(args) == IF Head(args).kind = "list" THEN Head(args).val ELSE args

\* Lines 466-469: the loop over the candidates; uri != None ends it (an
\* exception of getURI ends the call as well).
RECURSIVE firstResource(_, _, _)
candidate(self, candidates, warnings, out) ==
  IF out.ret # None THEN Outcome(out.ret, warnings \o out.warnings)
  ELSE firstResource(self, Tail(candidates), warnings \o out.warnings)

firstResource(self, candidates, warnings) ==
  IF candidates = << >> THEN Outcome(None, warnings)
  ELSE candidate(self, candidates, warnings, getURI(self, Head(candidates).val[1]))

\* ExecutionContext.getResource(*args)
getResource(self, args) ==
  IF Len(args) = 0 THEN Outcome(None, << >>)
  ELSE firstResource(self, rargs(args), << >>)

(***************************************************************************)
(* The resolution functions called on a context                            *)
(***************************************************************************)

\* The call op(self, arg) returned or raised out.  The functions read the
\* context and change nothing but the warnings of the call, so a run of
\* this specification is one call on one context.
Called(op, self, arg, out) ==
  /\ result = NoCall
  /\ result' = Call(op, self, arg, out)
  /\ raised' = IF out.ret \in Exceptions THEN out.ret ELSE None
  /\ UNCHANGED <<HostLanguage, contexts, heap, graph, scopes>>

Call_URI(self, val) ==
  /\ raised = None
  /\ Called("_URI", self, Str(val), _URI(contexts[self], val))

Call_CURIEorURI(self, val) ==
  /\ raised = None
  /\ Called("_CURIEorURI", self, Str(val), _CURIEorURI(contexts[self], val))

Call_TERMorCURIEorAbsURI(self, val) ==
  /\ raised = None
  /\ Called("_TERMorCURIEorAbsURI", self, Str(val),
            _TERMorCURIEorAbsURI(contexts[self], val))

Call_getURI(self, attr) ==
  /\ raised = None
  /\ Called("getURI", self, Name(attr), getURI(contexts[self], attr))

Call_getResource(self, args) ==
  /\ raised = None
  /\ Called("getResource", self, List(args), getResource(contexts[self], args))

\* The attribute values handed to the resolution functions.
Values ==
  { <<>>, <<"[", "u", ":", "x", "]">>, <<"[", "p", ":", "x", "]">>, <<"[", "p", ":", "x">>, <<"[", "]">>, <<"u", ":", "x">>, <<"p", ":", "x">>,
    <<"_", ":", "b">>, <<"x", "?">>, <<"t">>, <<"u">>, <<"h", "t", "t", "p", ":", "/", "/", "e", "/", "z">>, <<"a", "/", "b">>, <<"/", "/", "[">>, <<".">>, <<".", ".">> }

\* The attribute names handed to getURI and getResource.
Attributes ==
  {"href", "src", "vocab", "about", "resource", "rel", "rev", "datatype",
   "typeof", "property", "data"}

\* The argument tuples of getResource: up to MaxCandidates names, or one
\* list of them.
CandidateAttributes == {"about", "href", "rel", "rev", "vocab", "data"}

Candidates ==
  UNION {[1..n -> {Name(a) : a \in CandidateAttributes}] : n \in 0..MaxCandidates}

ResourceArguments == Candidates \cup {<< List(c) >> : c \in Candidates}

\* The contexts the resolution functions are called on.
ResolveVersions == {<<"1", ".", "0">>, <<"1", ".", "1">>, <<"1", ".", "2">>}
ResolveBases == {<<>>, <<"h", "t", "t", "p", ":", "/", "/", "e", "/", "a", "/">>, <<"d", "/", "a">>}
ResolveNodes == 8..11

InitResolve ==
  /\ HostLanguage = HostLanguageDefined
  /\ \E node \in ResolveNodes, rdfa_version \in ResolveVersions,
        base \in ResolveBases, tc \in 1..Len(TermOrCurieTables) :
       contexts = << Context(node, 0, rdfa_version, base, DefaultOptions, 1,
                             TRUE, tc, None, None) >>
  /\ heap = << ListStructure >>
  /\ graph = {}
  /\ result = NoCall
  /\ raised = None
  /\ scopes = [of |-> << 1 >>, log |-> << NoAppends >>]

NextResolve ==
  \/ \E val \in Values : Call_URI(1, val)
  \/ \E val \in Values : Call_CURIEorURI(1, val)
  \/ \E val \in Values : Call_TERMorCURIEorAbsURI(1, val)
  \/ \E attr \in Attributes : Call_getURI(1, attr)
  \/ \E args \in ResourceArguments : Call_getResource(1, args)

SpecResolve == InitResolve /\ [][NextResolve]_vars

(***************************************************************************)
(* Properties of the resolution functions (specification SpecResolve)      *)
(***************************************************************************)

\* The last call was op on a context, with a string argument.
Resolved(op) == result.op = op

\* val is a safe CURIE: a value in square brackets.
Bracketed(val) == Len(val) >= 2 /\ Head(val) = "[" /\ Last(val) = "]"

Inner(val) == Slice(val, 1, Len(val) - 1)

\* The warnings of a call are exactly one warning of the given class.
OneWarning(out, type) == Len(out.warnings) = 1 /\ out.warnings[1].type = type

\* C1: under version >= "1.1", _CURIEorURI on a value in brackets whose
\* inside CURIE_to_URI cannot resolve returns None with exactly one
\* UnresolvablePrefix warning, and not what _URI makes of the inside.
C1_SafeCurieNeverFallsBack ==
  ( /\ Resolved("_CURIEorURI")
    /\ atLeast11(contexts[result.self])
    /\ Bracketed(result.arg.val)
    /\ CURIE_to_URI(contexts[result.self].term_or_curie, Inner(result.arg.val)) = None )
  => /\ result.out.ret = None
     /\ OneWarning(result.out, "UnresolvablePrefix")
     /\ result.out.ret # _URI(contexts[result.self], Inner(result.arg.val)).ret

\* C1's case: "[u:x]" with u unbound under version 1.1, where _URI would
\* have made a reference of "u:x".
C1_Witness ==
  /\ Resolved("_CURIEorURI")
  /\ contexts[1].rdfa_version = <<"1", ".", "1">>
  /\ result.arg.val = <<"[", "u", ":", "x", "]">>
  /\ result.out.ret = None
  /\ _URI(contexts[1], <<"u", ":", "x">>).ret = URIRef(<<"u", ":", "x">>)

\* C2: each of the three resolution functions, on a non-empty value,
\* returns without raising, and when it returns None the call added
\* exactly one warning.
C2_ResolutionIsTotal ==
  ( /\ result.op \in {"_URI", "_CURIEorURI", "_TERMorCURIEorAbsURI"}
    /\ result.arg.val # << >> )
  => /\ result.out.ret \notin Exceptions
     /\ result.out.ret = None => Len(result.out.warnings) = 1

\* C8: _TERMorCURIEorAbsURI on a non-empty value that is not a name token
\* and that CURIE_to_URI cannot resolve: under version >= "1.1" the value
\* itself as a reference when it has a scheme (with the scheme warning only
\* for a scheme outside uri_schemes) and None with err_non_legal_CURIE_ref
\* when it has none; under version 1.0 None with err_undefined_CURIE.
C8_AbsoluteURIFallback ==
  ( /\ Resolved("_TERMorCURIEorAbsURI")
    /\ result.arg.val # << >>
    /\ ~ncname_match(result.arg.val)
    /\ CURIE_to_URI(contexts[result.self].term_or_curie, result.arg.val) = None )
  => IF atLeast11(contexts[result.self])
     THEN IF schemeOf(result.arg.val) # << >>
          THEN /\ result.out.ret = URIRef(result.arg.val)
               /\ result.out.warnings =
                    IF schemeOf(result.arg.val) \in uri_schemes THEN << >>
                    ELSE << Warning("err_URI_scheme", "Warning") >>
          ELSE result.out =
                 Outcome(None, << Warning("err_non_legal_CURIE_ref", "UnresolvablePrefix") >>)
     ELSE result.out =
            Outcome(None, << Warning("err_undefined_CURIE", "UnresolvablePrefix") >>)

\* A resolution that is absent: None, or the empty list of a list attribute.
Absent(r) == r = None \/ r = List(<< >>)

\* The resolution of the first candidate that is not absent, None if there
\* is none.
RECURSIVE FirstNotAbsent(_, _)
FirstNotAbsent(self, candidates) ==
  IF candidates = << >> THEN None
  ELSE IF ~Absent(getURI(self, Head(candidates).val[1]).ret)
    THEN getURI(self, Head(candidates).val[1]).ret
  ELSE FirstNotAbsent(self, Tail(candidates))

\* C9: getResource returns the resolution of the first candidate whose
\* resolution is not absent, and None when there is none; a candidate that
\* is missing, unresolvable or resolves to no reference at all does not stop
\* the search.
C9_FirstResolvedWins ==
  (Resolved("getResource") /\ result.arg.val # << >>)
  => result.out.ret = FirstNotAbsent(contexts[result.self], rargs(result.arg.val))

\* The last call was getURI for an attribute the node carries and
\* _resource_type does not hold.
OutsideTheTable ==
  /\ Resolved("getURI")
  /\ result.arg.val[1] \notin DOMAIN _resource_type
  /\ hasAttribute(contexts[result.self].node, result.arg.val[1])

\* C10, as the code has it: getURI for an attribute the node carries and
\* _resource_type does not hold resolves the stripped value with _URI, as
\* a single value, and returns what _URI returns.
C10_OutsideTheTableIsURI ==
  OutsideTheTable
  => result.out = _URI(contexts[result.self],
                       strip(getAttribute(contexts[result.self].node, result.arg.val[1])))

\* C10's case: the attribute data="d" resolved against the base http://e/a/.
C10_Witness ==
  /\ OutsideTheTable
  /\ contexts[1].base = <<"h", "t", "t", "p", ":", "/", "/", "e", "/", "a", "/">>
  /\ result.out = Outcome(URIRef(<<"h", "t", "t", "p", ":", "/", "/", "e", "/", "a", "/", "d">>), << >>)

\* C10, as stated: getURI for an attribute outside _resource_type ends in an
\* error of its own and returns no reference.
C10_OutsideTheTableIsAnError ==
  OutsideTheTable
  => result.out.ret.kind \notin {"URIRef", "BNode", "list"}

(***************************************************************************)
(* Properties of the constructor (specification Spec)                      *)
(***************************************************************************)

\* The contexts built from a parent, and the parent of one.
Children == {i \in 1..Len(contexts) : contexts[i].inherited_state # 0}
Parent(i) == contexts[contexts[i].inherited_state]

\* The host language of a context.
HostOf(i) == contexts[i].options.host_language

\* u is a non-empty absolute URI: it has a scheme.
Absolute(u) == u # << >> /\ schemeOf(u) # << >>

\* The base a node declares and the host language reads, as written in the
\* document: for a root under XHTML or HTML the href of the last base element
\* that has one, for a host language of accept_xml_base the xml:base
\* attribute; None when the node declares none or it is not read.
RECURSIVE LastHref(_)
LastHref(bases) ==
  IF bases = << >> THEN None
  ELSE IF Last(bases) # None THEN Last(bases)
  ELSE LastHref(SubSeq(bases, 1, Len(bases) - 1))

Declared(i) ==
  IF contexts[i].inherited_state = 0 /\ HostOf(i) \in xhtmlOrHtml
  THEN LastHref(Nodes[contexts[i].node].bases)
  ELSE IF HostOf(i) \in accept_xml_base /\ hasAttribute(contexts[i].node, "xml:base")
    THEN Str(getAttribute(contexts[i].node, "xml:base"))
  ELSE None

\* The last call built the root context.
RootBuilt == result.op = "__init__" /\ result.self = 1

LangRead(i) ==
  IF HostOf(i) \in xhtmlOrHtml
  THEN IF hasAttribute(contexts[i].node, "xml:lang")
       THEN Str(getAttribute(contexts[i].node, "xml:lang"))
       ELSE IF hasAttribute(contexts[i].node, "lang")
       THEN Str(getAttribute(contexts[i].node, "lang"))
       ELSE None
  ELSE IF HostOf(i) \in accept_xml_lang /\ hasAttribute(contexts[i].node, "xml:lang")
       THEN Str(getAttribute(contexts[i].node, "xml:lang"))
       ELSE None

\* The node carries a language attribute, lang or xml:lang, that is empty.
EmptyLangAttribute(node) ==
  \/ hasAttribute(node, "lang") /\ getAttribute(node, "lang") = << >>
  \/ hasAttribute(node, "xml:lang") /\ getAttribute(node, "xml:lang") = << >>

Empty_URI(self) ==
  /\ raised = None
  /\ self \in 1..Len(contexts)
  /\ result' = Call("_URI", self, Str(<< >>), _URI(contexts[self], << >>))
  /\ UNCHANGED <<HostLanguage, contexts, heap, graph, raised, scopes>>

\* self._CURIEorURI("") on a context of the tree
Empty_CURIEorURI(self) ==
  /\ raised = None
  /\ self \in 1..Len(contexts)
  /\ result' = Call("_CURIEorURI", self, Str(<< >>), _CURIEorURI(contexts[self], << >>))
  /\ UNCHANGED <<HostLanguage, contexts, heap, graph, raised, scopes>>

NextBase ==
  \/ \E node \in ConstructorNodes, base \in BaseArguments, options \in OptionsArguments :
       BuildRoot(node, base, options, None, 1)
  \/ \E parent \in 1..Len(contexts), node \in ChildNodes :
       BuildChild(parent, node, <<>>, None, None)
  \/ \E self \in 1..Len(contexts) : Empty_URI(self)
  \/ \E self \in 1..Len(contexts) : Empty_CURIEorURI(self)

SpecBase == Init /\ [][NextBase]_vars

C12_Version10CurieOnlyInBrackets ==
  (Resolved("_CURIEorURI") /\ ~atLeast11(contexts[result.self]))
  => /\ (result.arg.val = << >> \/ Head(result.arg.val) # "[")
        => result.out = _URI(contexts[result.self], result.arg.val)
     /\ Bracketed(result.arg.val)
        => result.out =
             Outcome(CURIE_to_URI(contexts[result.self].term_or_curie,
                                  Inner(result.arg.val)), << >>)

\* C12's case: "p:x" under version 1.0 with the prefix p bound to http://v/:
\* the reference p:x with the warning of the unusual scheme.
C12_Witness ==
  /\ Resolved("_CURIEorURI")
  /\ contexts[1].rdfa_version = <<"1", ".", "0">>
  /\ contexts[1].term_or_curie = 2
  /\ result.arg.val = <<"p", ":", "x">>
  /\ CURIE_to_URI(2, <<"p", ":", "x">>) = URIRef(<<"h", "t", "t", "p", ":", "/", "/", "v", "/", "x">>)
  /\ result.out = Outcome(URIRef(<<"p", ":", "x">>), << Warning("err_URI_scheme", "Warning") >>)

\* The join of base and v with the '#' or '?' that ends v put back when the
\* join dropped it.
JoinRestoring(joined, v) ==
  IF Last(v) \in {"#", "?"} /\ (joined = << >> \/ Last(joined) # Last(v))
  THEN joined \o << Last(v) >> ELSE joined

\* C13: _URI on a non-empty value with no scheme returns the join of the
\* base and the value, with a '#' or '?' at the end of the value put back
\* when the join dropped it, and with nothing appended for a value that ends
\* in another character.
C13_JoinRestoresOnlyHashAndQuery ==
  ( /\ Resolved("_URI")
    /\ result.arg.val # << >>
    /\ schemeOf(result.arg.val) = << >> )
  => result.out.ret =
       URIRef(JoinRestoring(urljoin(contexts[result.self].base, result.arg.val),
                            result.arg.val))

\* The resolutions of the tokens that are not None, in the order of the
\* tokens.
RECURSIVE Kept(_, _, _)
Kept(self, func, tokens) ==
  IF tokens = << >> THEN << >>
  ELSE (IF apply(func, self, Head(tokens)).ret # None
        THEN << apply(func, self, Head(tokens)).ret >> ELSE << >>)
       \o Kept(self, func, Tail(tokens))

\* C14: getURI on rel, rev, property or typeof returns the list of the
\* resolutions of the whitespace-separated tokens of the value, each by the
\* function of the attribute, without those that are None, in the order of
\* the tokens and with duplicates; the empty list when the node has no such
\* attribute; and None for a missing attribute that holds a single value.
C14_ListAttributes ==
  Resolved("getURI")
  => /\ (result.arg.val[1] \in _list
         /\ hasAttribute(contexts[result.self].node, result.arg.val[1]))
        => result.out.ret =
             List(Kept(contexts[result.self], _resource_type[result.arg.val[1]],
                       splitWs(getAttribute(contexts[result.self].node,
                                            result.arg.val[1]))))
     /\ (result.arg.val[1] \in _list
         /\ ~hasAttribute(contexts[result.self].node, result.arg.val[1]))
        => result.out.ret = List(<< >>)
     /\ (result.arg.val[1] \notin _list
         /\ ~hasAttribute(contexts[result.self].node, result.arg.val[1]))
        => result.out.ret = None

(***************************************************************************)
(* Further properties of the list accumulator (SpecList)                   *)
(***************************************************************************)

\* The step is a reset (a scope opens and no context is built), or an
\* append (the history of a scope grows); result' names the context.
ResetStep ==
  /\ Len(scopes'.log) = Len(scopes.log) + 1
  /\ Len(contexts') = Len(contexts)

AppendStep ==
  /\ Len(scopes'.log) = Len(scopes.log)
  /\ scopes'.log # scopes.log

C16_ConstructorBuilds ==
  result.op = "__init__"
  => /\ xhtmlOrHtmlNames \subseteq DOMAIN HostLanguage
     /\ raised = None
     /\ result.self \in 1..Len(contexts)

=============================================================================
